---- MODULE Spec2Model ----
(***************************************************************************)
(* Model of the villa-ops-ai conversational agent orchestrator:            *)
(*   backend/app/agent/memory.py   conversation store and sanitization     *)
(*   backend/app/agent/nodes.py    agent / tools nodes with the HITL gate  *)
(*   backend/app/api/v1/chat.py    SSE streaming, resume guard             *)
(* LangChain messages are records                                          *)
(*   [type, content, tool_calls, tool_call_id, name]                       *)
(* and database rows of the messages table are records                     *)
(*   [id, role, content, tool_calls, tool_results, created_at].            *)
(***************************************************************************)
EXTENDS Integers, Sequences, FiniteSets, TLC

(***************************************************************************)
(* Bounds of the model.                                                    *)
(***************************************************************************)
\* longest message list handed to sanitize_message_history
MaxLen == 3
\* largest batch handed to one save_messages call in the store specification
MaxBatch == 3
\* number of save_messages calls in the store specification
MaxSaves == 2
\* largest value of the microsecond clock
MaxClock == 3
\* number of requests (chat or resume) the conversation receives
MaxStreams == 3
\* number of model calls made for the conversation
MaxAsk == 2
\* ownership specification: conversations ever created
MaxConvs == 1
\* ownership specification: messages stored in one conversation
MaxOwnTurns == 4
\* title specification: the message lengths lie this far around the title limit
MaxTitleExtra == 2
\* booking specification: the days of the calendar
MaxDay == 3
\* booking specification: bookings ever created
MaxBookings == 2
\* tools-node specification: tool calls of one model response
MaxToolCalls == 3
\* executor specification: rows ever created in each of properties, guests, bookings
MaxRows == 2

(***************************************************************************)
(* Values.                                                                 *)
(***************************************************************************)
\* a tool call without an id: tc.get("id", "") is falsy
EmptyId == ""
\* SQL NULL of a nullable JSON column; a value v is stored as <<v>>
NULL == <<>>

DESTRUCTIVE_TOOLS == {"property_delete", "guest_delete"}

CANCELLED == "Action cancelled by user."

HumanMessage(content) ==
    [type |-> "human", content |-> content, tool_calls |-> <<>>,
     tool_call_id |-> EmptyId, name |-> ""]

AIMessage(content, tool_calls) ==
    [type |-> "ai", content |-> content, tool_calls |-> tool_calls,
     tool_call_id |-> EmptyId, name |-> ""]

ToolMessage(content, tool_call_id, name) ==
    [type |-> "tool", content |-> content, tool_calls |-> <<>>,
     tool_call_id |-> tool_call_id, name |-> name]

ToolCall(id, name) == [id |-> id, name |-> name]

Range(s) == {s[i] : i \in 1..Len(s)}

RECURSIVE SelectSeqBy(_, _)
\* the subsequence of s of the elements in the set keep
SelectSeqBy(s, keep) ==
    IF s = <<>> THEN <<>>
    ELSE (IF Head(s) \in keep THEN <<Head(s)>> ELSE <<>>) \o SelectSeqBy(Tail(s), keep)

(***************************************************************************)
(* memory.py: sanitize_message_history                                     *)
(***************************************************************************)
\* first loop: the ids of all tool calls of all AIMessages (empty ids skipped)
ValidToolCallIds(messages) ==
    {tc.id : tc \in UNION {Range(m.tool_calls) :
                             m \in {x \in Range(messages) : x.type = "ai"}}}
        \ {EmptyId}

\* first pass: a ToolMessage is kept when its id is non-empty and valid
KeepToolMessage(msg, valid) ==
    msg.tool_call_id # EmptyId /\ msg.tool_call_id \in valid

RECURSIVE FirstPass(_, _)
FirstPass(messages, valid) ==
    IF messages = <<>> THEN <<>>
    ELSE LET msg == Head(messages)
             rest == FirstPass(Tail(messages), valid)
         IN IF msg.type = "tool"
            THEN (IF KeepToolMessage(msg, valid) THEN <<msg>> \o rest ELSE rest)
            ELSE <<msg>> \o rest

\* a mutant of KeptToolCallIds: the ids of the requests count as answered
KeptToolCallIdsRequested(sanitized) ==
    {tc.id : tc \in UNION {Range(m.tool_calls) :
                             m \in {x \in Range(sanitized) : x.type = "ai"}}}

KeptToolCallIds(sanitized) ==
    {m.tool_call_id : m \in {x \in Range(sanitized) : x.type = "tool"}}

\* a mutant of DropRequest: drops a request unless all of its calls were answered
DropRequestUnlessAll(msg, kept) ==
    /\ msg.type = "ai"
    /\ msg.tool_calls # <<>>
    /\ msg.content = ""
    /\ ~({tc.id : tc \in Range(msg.tool_calls)} \subseteq kept)

\* second pass: an AIMessage with tool calls and no content is dropped when
\* none of its tool-call ids was kept
DropRequest(msg, kept) ==
    /\ msg.type = "ai"
    /\ msg.tool_calls # <<>>
    /\ msg.content = ""
    /\ {tc.id : tc \in Range(msg.tool_calls)} \cap kept = {}

RECURSIVE SecondPass(_, _)
SecondPass(sanitized, kept) ==
    IF sanitized = <<>> THEN <<>>
    ELSE LET msg == Head(sanitized)
             rest == SecondPass(Tail(sanitized), kept)
         IN IF DropRequest(msg, kept) THEN rest ELSE <<msg>> \o rest

sanitize_message_history(messages) ==
    LET sanitized == FirstPass(messages, ValidToolCallIds(messages))
    IN SecondPass(sanitized, KeptToolCallIds(sanitized))

(***************************************************************************)
(* memory.py: save_messages, load_conversation_messages; the messages      *)
(* table of models/conversation.py                                         *)
(***************************************************************************)
\* a mutant of CreatedAt: every row of a batch gets the transaction's time
CreatedAtNow(base_time, i) == base_time

\* created_at = base_time + timedelta(microseconds=i), i counted from 0
CreatedAt(base_time, i) == base_time + i

\* the row save_messages builds for the i-th message (counted from 0)
DbMessage(msg, id, base_time, i) ==
    [id |-> id,
     role |-> CASE msg.type = "human" -> "user"
                [] msg.type = "ai" -> "assistant"
                [] msg.type = "tool" -> "tool",
     content |-> msg.content,
     tool_calls |-> IF msg.type = "ai" /\ msg.tool_calls # <<>>
                    THEN <<msg.tool_calls>> ELSE NULL,
     tool_results |-> IF msg.type = "tool" THEN <<msg.tool_call_id>> ELSE NULL,
     created_at |-> CreatedAt(base_time, i)]

\* the rows one save_messages call adds; next_id is the first unused row id
save_messages(messages, next_id, base_time) ==
    {DbMessage(messages[k], next_id + k - 1, base_time, k - 1) : k \in 1..Len(messages)}

\* the LangChain message load_conversation_messages builds from a row
LangchainMessage(row) ==
    CASE row.role = "user" -> HumanMessage(row.content)
      [] row.role = "assistant" ->
            AIMessage(row.content, IF row.tool_calls # NULL THEN row.tool_calls[1] ELSE <<>>)
      [] row.role = "tool" ->
            ToolMessage(row.content,
                        IF row.tool_results # NULL THEN row.tool_results[1] ELSE EmptyId, "")

RECURSIVE OrderByCreatedAt(_)
\* Conversation.messages: every order of the rows that ORDER BY created_at
\* allows (rows of equal created_at come in any order)
OrderByCreatedAt(rows) ==
    IF rows = {} THEN {<<>>}
    ELSE UNION {{<<r>> \o t : t \in OrderByCreatedAt(rows \ {r})} :
                  r \in {x \in rows : \A y \in rows : x.created_at <= y.created_at}}

\* what load_conversation_messages returns for the rows in the order given
load_conversation_messages(ordered) ==
    sanitize_message_history([k \in 1..Len(ordered) |-> LangchainMessage(ordered[k])])

\* schemas/chat.py MessageResponse built from a row (from_attributes)
MessageResponse(row) ==
    [id |-> row.id, role |-> row.role, content |-> row.content,
     tool_calls |-> row.tool_calls, tool_results |-> row.tool_results,
     created_at |-> row.created_at]

\* chat.py get_conversation: one MessageResponse per row of conv.messages
get_conversation(ordered) == [k \in 1..Len(ordered) |-> MessageResponse(ordered[k])]

(***************************************************************************)
(* memory.py: generate_title.  A text is a sequence of characters.         *)
(***************************************************************************)
\* the 50 of len(content) <= 50 and content[:50]
TITLE_LIMIT == 50

\* the characters str.strip() removes, as far as they occur here
WHITESPACE == {" ", "\t"}

ELLIPSIS == <<".", ".", ".">>

RECURSIVE lstrip(_)
lstrip(s) ==
    IF s # <<>> /\ Head(s) \in WHITESPACE THEN lstrip(Tail(s)) ELSE s

RECURSIVE rstrip(_)
rstrip(s) ==
    IF s # <<>> /\ s[Len(s)] \in WHITESPACE THEN rstrip(SubSeq(s, 1, Len(s) - 1)) ELSE s

\* content.strip()
strip(s) == rstrip(lstrip(s))

RECURSIVE rfind(_, _, _)
\* the last position up to i where s has the character sep, 0 when there is none
rfind(s, sep, i) ==
    IF i = 0 THEN 0
    ELSE IF s[i] = sep THEN i
    ELSE rfind(s, sep, i - 1)

\* a mutant of rsplit_head: the text is not cut back
RsplitWhole(s) == s

\* s.rsplit(" ", 1)[0]: the part before the last space, all of s when it has no space
rsplit_head(s) ==
    LET i == rfind(s, " ", Len(s)) IN
    IF i = 0 THEN s ELSE SubSeq(s, 1, i - 1)

generate_title(content) ==
    LET stripped == strip(content) IN
    IF Len(stripped) <= TITLE_LIMIT
    THEN stripped
    ELSE rsplit_head(SubSeq(stripped, 1, TITLE_LIMIT)) \o ELLIPSIS

(***************************************************************************)
(* State.                                                                  *)
(***************************************************************************)
VARIABLES
    \* chat.py: the conversations table (ids of the rows)
    conversations,
    \* models/conversation.py: the rows of the messages table
    db_messages,
    \* the next unused primary key of the messages table
    next_id,
    \* datetime.utcnow() in microseconds
    clock,
    \* models/llm_usage.py: number of LLMUsage rows
    llm_usage,
    \* chat.py: _active_resumes
    active_resumes,
    \* the LangGraph checkpoint of the conversation's thread
    checkpoint,
    \* one record per request: handler, event generator and graph run
    streams,
    \* number of model calls made so far
    llm_calls,
    \* for each tool-call id, how often its executor was invoked
    executor_calls,
    \* store specification: the row ids of each save_messages call, in batch order
    batches,
    \* store specification: the order (of row ids) Conversation.messages was last loaded in
    loaded,
    \* sanitization specification: input, result, result of a second application
    san_in, san_out, san_again, san_pc,
    \* ownership specification: Conversation.user_id of each conversations row
    conv_owner,
    \* ownership specification: the messages saved to each conversation, in stored order
    conv_messages,
    \* ownership specification: the id the next conversations row gets
    next_conv,
    \* ownership specification: the last request and what it was answered
    reply,
    \* title specification: the first message, its title, whether it was derived
    title_in, title_out, title_done,
    \* booking specification: the rows of the bookings table
    bookings,
    \* booking specification: the id the next bookings row gets
    next_booking,
    \* booking specification: what the last request was answered
    booking_reply,
    \* tools-node specification: last_msg.tool_calls and the decisions interrupt() has
    \* for the node
    tn_calls, tn_resume,
    \* tools-node specification: where the node is, the for loop's position (or the
    \* number of executors ToolNode has started), the interrupt() calls made in this
    \* run of the node, the calls whose executor is running, the node's results
    tn_pc, tn_i, tn_asked, tn_running, tn_results,
    \* tools-node specification: the executor starts and the ToolResults, as they happen
    tn_log,
    \* executor specification: the rows of the properties, guests and bookings tables
    ex_properties, ex_guests, ex_bookings,
    \* executor specification: the id the next row of each table gets
    ex_next,
    \* executor specification: the last tool call: its user_id argument, the owners of
    \* the rows its result shows and of the rows it wrote or deleted
    ex_reply

vars == <<conversations, db_messages, next_id, clock, llm_usage, active_resumes,
          checkpoint, streams, llm_calls, executor_calls, batches, loaded,
          san_in, san_out, san_again, san_pc,
          conv_owner, conv_messages, next_conv, reply,
          title_in, title_out, title_done, bookings, next_booking, booking_reply,
          tn_calls, tn_resume, tn_pc, tn_i, tn_asked, tn_running, tn_results, tn_log,
          ex_properties, ex_guests, ex_bookings, ex_next, ex_reply>>

store_vars == <<db_messages, next_id, clock, batches, loaded>>
san_vars == <<san_in, san_out, san_again, san_pc>>
own_vars == <<conv_owner, conv_messages, next_conv, reply>>
\* the variables of the specifications of single modules, which the agent, the store
\* and sanitization leave alone
title_vars == <<title_in, title_out, title_done>>
booking_vars == <<bookings, next_booking, booking_reply>>
tn_vars == <<tn_calls, tn_resume, tn_pc, tn_i, tn_asked, tn_running, tn_results, tn_log>>
ex_vars == <<ex_properties, ex_guests, ex_bookings, ex_next, ex_reply>>
side_vars == <<own_vars, title_vars, booking_vars, tn_vars, ex_vars>>
agent_vars == <<conversations, llm_usage, active_resumes, checkpoint, streams,
                llm_calls, executor_calls>>

CONVERSATION_ID == "conv"

\* the ids the model gives its tool calls: two per response
TOOL_CALL_IDS == <<"tc_1", "tc_2", "tc_3", "tc_4", "tc_5", "tc_6", "tc_7", "tc_8",
                   "tc_9", "tc_10">>

\* messages: the thread's messages channel; next: the node to run; interrupt: the call
\* the tools node is suspended on; resume_values: the decisions given to that node so far
NoCheckpoint ==
    [messages |-> <<>>, next |-> "none", interrupt |-> <<>>, resume_values |-> <<>>]

\* asks: what agent_node sent to the model, one entry per call
\* a stream record also notes what the claims speak of: produced, the messages its run's
\* nodes returned; seen_at_disconnect, how many of them there were when the client went
\* away; shown, the messages an event was sent for; failure, what failed: "model" the
\* model client, "flush" the store at the flush before a pause, "finally" the store in
\* the finally block
\* response: the model's answer while agent_node has not returned; resumed: the id of
\* the call the run was suspended on when a resume continued it; interrupt: the call
\* interrupt() suspended this run on
NoRun ==
    [messages |-> <<>>, next |-> "none", resume_values |-> <<>>, response |-> <<>>,
     resumed |-> "", interrupt |-> <<>>]

NoStream ==
    [kind |-> "none", pc |-> "idle", action |-> "", connected |-> TRUE,
     new_messages |-> <<>>, events |-> <<>>, stream_ok |-> FALSE,
     chunk |-> <<>>, run |-> NoRun, produced |-> <<>>, seen_at_disconnect |-> -1,
     shown |-> {}, failure |-> "", asks |-> <<>>]

InitAgent ==
    /\ conversations = {}
    /\ llm_usage = 0
    /\ active_resumes = {}
    /\ checkpoint = NoCheckpoint
    /\ streams = [s \in 1..MaxStreams |-> NoStream]
    /\ llm_calls = 0
    /\ executor_calls = [id \in Range(TOOL_CALL_IDS) |-> 0]

InitStore ==
    /\ db_messages = {}
    /\ next_id = 1
    /\ clock = 0
    /\ batches = <<>>
    /\ loaded = <<>>

InitSan ==
    /\ san_in = <<>>
    /\ san_out = <<>>
    /\ san_again = <<>>
    /\ san_pc = "idle"

NoReply == [op |-> "none", caller |-> "", id |-> 0, status |-> "", body |-> <<>>]

InitOwner ==
    /\ conv_owner = <<>>
    /\ conv_messages = <<>>
    /\ next_conv = 1
    /\ reply = NoReply

InitTitle ==
    /\ title_in = <<>>
    /\ title_out = <<>>
    /\ title_done = FALSE

InitBooking ==
    /\ bookings = {}
    /\ next_booking = 1
    /\ booking_reply = "none"

InitToolsNode ==
    /\ tn_calls = <<>>
    /\ tn_resume = <<>>
    /\ tn_pc = "idle"
    /\ tn_i = 1
    /\ tn_asked = 0
    /\ tn_running = {}
    /\ tn_results = <<>>
    /\ tn_log = <<>>

\* a tool call's answer: returned and changed are sets of owner ids
Answer(tool, user_id, returned, changed) ==
    [tool |-> tool, user_id |-> user_id, returned |-> returned, changed |-> changed]

InitExecutors ==
    /\ ex_properties = {}
    /\ ex_guests = {}
    /\ ex_bookings = {}
    /\ ex_next = [property |-> 1, guest |-> 1, booking |-> 1]
    /\ ex_reply = Answer("none", "", {}, {})

InitSide == InitOwner /\ InitTitle /\ InitBooking /\ InitToolsNode /\ InitExecutors

(***************************************************************************)
(* nodes.py: the tools node with the confirmation gate.                    *)
(* A node result is [results, executed, interrupt]: the ToolMessages the   *)
(* node returns, the ids of the calls whose executor ran, and the call     *)
(* interrupt() suspended on (<<>> when the node returned).                 *)
(***************************************************************************)
\* ToolNode.ainvoke on one tool call: the executor's result as a ToolMessage
ToolResult(tc) == ToolMessage("ok", tc.id, tc.name)

\* standard_tool_node.ainvoke(state): every call of the last message is executed
StandardToolNode(tool_calls) ==
    [results |-> [k \in 1..Len(tool_calls) |-> ToolResult(tool_calls[k])],
     executed |-> [k \in 1..Len(tool_calls) |-> tool_calls[k].id],
     interrupt |-> <<>>]

\* a mutant of Approved: the gate treats every decision as an approval
ApprovedAlways(decision) == TRUE

\* decision.get("action") != "approve" cancels the call
Approved(decision) == decision = "approve"

RECURSIVE ProcessToolCalls(_, _)
\* the for loop of tools_node; resume_values are the decisions interrupt() returns,
\* in call order, when the node is run again after a resume
ProcessToolCalls(tool_calls, resume_values) ==
    IF tool_calls = <<>>
    THEN [results |-> <<>>, executed |-> <<>>, interrupt |-> <<>>]
    ELSE LET tc == Head(tool_calls) IN
         IF tc.name \in DESTRUCTIVE_TOOLS
         THEN IF resume_values = <<>>
              THEN [results |-> <<>>, executed |-> <<>>, interrupt |-> <<tc>>]
              ELSE LET rest == ProcessToolCalls(Tail(tool_calls), Tail(resume_values)) IN
                   IF ~Approved(Head(resume_values))
                   THEN [rest EXCEPT !.results = <<ToolMessage(CANCELLED, tc.id, tc.name)>> \o @]
                   ELSE [rest EXCEPT !.results = <<ToolResult(tc)>> \o @,
                                     !.executed = <<tc.id>> \o @]
         ELSE LET rest == ProcessToolCalls(Tail(tool_calls), resume_values) IN
              [rest EXCEPT !.results = <<ToolResult(tc)>> \o @,
                           !.executed = <<tc.id>> \o @]

\* when interrupt() raises, the results collected so far are lost with the node's frame
tools_node(messages, resume_values) ==
    LET tool_calls == messages[Len(messages)].tool_calls IN
    IF tool_calls = <<>>
    THEN [results |-> <<>>, executed |-> <<>>, interrupt |-> <<>>]
    ELSE IF \A k \in 1..Len(tool_calls) : tool_calls[k].name \notin DESTRUCTIVE_TOOLS
    THEN StandardToolNode(tool_calls)
    ELSE LET r == ProcessToolCalls(tool_calls, resume_values) IN
         IF r.interrupt # <<>> THEN [r EXCEPT !.results = <<>>] ELSE r

\* a mutant of should_continue: any message with tool calls sends the run to the tools
ShouldContinueAny(messages) ==
    IF \E k \in 1..Len(messages) : messages[k].tool_calls # <<>> THEN "tools" ELSE "end"

\* nodes.py: should_continue
should_continue(messages) ==
    IF messages[Len(messages)].tool_calls # <<>> THEN "tools" ELSE "end"

(***************************************************************************)
(* state.py AgentState and nodes.py agent_node: what the model is sent.    *)
(***************************************************************************)
\* the keys of AgentState: the channels of the graph
AGENT_STATE_CHANNELS == {"messages"}

\* the graph takes from its input the keys that are channels of its state
InputChannels(agent_input) ==
    [k \in DOMAIN agent_input \cap AGENT_STATE_CHANNELS |-> agent_input[k]]

\* the state a node is called with: the values of the channels
GraphState(run) == [k \in AGENT_STATE_CHANNELS |-> run[k]]

\* lines 23-31: the system message (the prompt, and user_id = state.get("user_id", ""),
\* the caller's id when the state has one) in front of the state's messages
AgentNodeMessages(state) ==
    [system |-> [prompt |-> "SYSTEM_PROMPT",
                 user_id |-> IF "user_id" \in DOMAIN state THEN state["user_id"] ELSE ""],
     messages |-> state["messages"]]

(***************************************************************************)
(* The model client: what llm_with_tools.ainvoke may answer.               *)
(***************************************************************************)
ToolBatches ==
    {<<"property_list">>, <<"property_delete">>,
     <<"property_list", "property_delete">>, <<"property_delete", "guest_delete">>}

\* the tool calls of the k-th model response
ToolCalls(k, names) ==
    [p \in 1..Len(names) |-> ToolCall(TOOL_CALL_IDS[2 * (k - 1) + p], names[p])]

ANSWERS == <<"answer 1", "answer 2", "answer 3", "answer 4", "answer 5">>

\* the responses of the k-th model call: the last one allowed is a final answer
Responses(k) ==
    {AIMessage(ANSWERS[k], <<>>)}
    \cup (IF k < MaxAsk THEN {AIMessage("", ToolCalls(k, names)) : names \in ToolBatches}
          ELSE {})

(***************************************************************************)
(* chat.py: the events of a stream.                                        *)
(***************************************************************************)
Event(type, name, content, ok) ==
    [type |-> type, name |-> name, content |-> content, ok |-> ok]

TokenEvent(content) == Event("token", "", content, TRUE)
ToolCallEvent(tc) == Event("tool_call", tc.name, "", TRUE)
ToolResultEvent(msg) == Event("tool_result", msg.name, msg.content, TRUE)
ConfirmationEvent(tc) == Event("confirmation", tc.name, "", TRUE)
InterruptedEvent == Event("interrupted", "", "", TRUE)
ErrorEvent == Event("error", "", "", TRUE)
DoneEvent(ok) == Event("done", "", "", ok)

\* lines 98-116: the events of a "messages" chunk
MessagesChunkEvents(msg) ==
    (IF msg.content # "" THEN <<TokenEvent(msg.content)>> ELSE <<>>)
    \o [k \in 1..Len(msg.tool_calls) |-> ToolCallEvent(msg.tool_calls[k])]

\* lines 157-175: the events of one message of an "updates" chunk
UpdateMessageEvents(msg) ==
    IF msg.type = "tool" THEN <<ToolResultEvent(msg)>>
    ELSE IF msg.type = "ai" /\ msg.tool_calls # <<>>
    THEN [k \in 1..Len(msg.tool_calls) |-> ToolCallEvent(msg.tool_calls[k])]
    ELSE IF msg.type = "ai" /\ msg.content # ""
    THEN <<TokenEvent(msg.content)>>
    ELSE <<>>

RECURSIVE UpdatesChunkEvents(_)
UpdatesChunkEvents(msgs) ==
    IF msgs = <<>> THEN <<>>
    ELSE UpdateMessageEvents(Head(msgs)) \o UpdatesChunkEvents(Tail(msgs))

Chunk(mode, kind, msgs, call) ==
    [mode |-> mode, kind |-> kind, msgs |-> msgs, call |-> call]

(***************************************************************************)
(* Agent specification: the requests of one conversation.  Each request    *)
(* takes the next free stream record; its handler, its event generator,    *)
(* the graph run it drives and _stream_agent advance one await at a time.  *)
(***************************************************************************)
Streams == 1..MaxStreams

Free(s) ==
    /\ streams[s].kind = "none"
    /\ IF s = 1 THEN TRUE ELSE streams[s - 1].kind # "none"

SetStream(s, rec) == streams' = [streams EXCEPT ![s] = rec]

USER_MESSAGE == HumanMessage("delete the villa")

\* str(user.id) of the caller of the conversation's requests
USER_ID == "alice"

\* chat.py chat(): the handler resolves or creates the conversation and returns the
\* response whose body is event_generator(); the client sends a message when no
\* stream of the conversation is open
Chat(s) ==
    /\ Free(s)
    /\ \A t \in Streams : streams[t].pc \in {"idle", "closed", "conflict"}
    /\ conversations' = conversations \cup {CONVERSATION_ID}
    /\ SetStream(s, [streams[s] EXCEPT !.kind = "chat", !.pc = "accepted"])
    /\ UNCHANGED <<llm_usage, active_resumes, checkpoint, llm_calls, executor_calls>>
    /\ UNCHANGED <<store_vars, san_vars, side_vars>>

\* chat.py chat.event_generator up to the first __anext__ of agent.astream: the history
\* is loaded and sanitized, the user message added, and the run starts from the
\* thread's checkpoint, to whose messages the input is added (operator.add)
ChatStart(s) ==
    /\ streams[s].kind = "chat"
    /\ streams[s].pc = "accepted"
    /\ \E ordered \in OrderByCreatedAt(db_messages) :
          LET history == Append(load_conversation_messages(ordered), USER_MESSAGE)
              agent_input == [messages |-> history, user_id |-> USER_ID]
              messages == checkpoint.messages \o InputChannels(agent_input)["messages"]
          IN /\ SetStream(s, [streams[s] EXCEPT
                    !.pc = "streaming",
                    !.new_messages = <<USER_MESSAGE>>,
                    !.run = [messages |-> messages, next |-> "agent",
                             resume_values |-> <<>>, response |-> <<>>,
                             resumed |-> "", interrupt |-> <<>>]])
             /\ checkpoint' = [messages |-> messages, next |-> "agent",
                               interrupt |-> <<>>, resume_values |-> <<>>]
    /\ UNCHANGED <<conversations, llm_usage, active_resumes, llm_calls, executor_calls>>
    /\ UNCHANGED <<store_vars, san_vars, side_vars>>

\* chat.event_generator: the checkpointer cannot be opened; nothing catches it
ChatSetupFails(s) ==
    /\ streams[s].kind = "chat"
    /\ streams[s].pc = "accepted"
    /\ SetStream(s, [streams[s] EXCEPT !.pc = "closed"])
    /\ UNCHANGED <<conversations, llm_usage, active_resumes, checkpoint, llm_calls,
                   executor_calls>>
    /\ UNCHANGED <<store_vars, san_vars, side_vars>>

\* chat.py resume_conversation(): ownership check, then the _active_resumes guard;
\* the client resumes from the confirmation card of an interrupted stream
Resume(s, action) ==
    /\ Free(s)
    /\ CONVERSATION_ID \in conversations
    /\ \E t \in Streams : InterruptedEvent \in Range(streams[t].events)
    /\ IF CONVERSATION_ID \in active_resumes
       THEN SetStream(s, [streams[s] EXCEPT !.kind = "resume", !.pc = "conflict",
                                            !.action = action])
       ELSE SetStream(s, [streams[s] EXCEPT !.kind = "resume", !.pc = "accepted",
                                            !.action = action])
    /\ UNCHANGED <<conversations, llm_usage, active_resumes, checkpoint, llm_calls,
                   executor_calls>>
    /\ UNCHANGED <<store_vars, san_vars, side_vars>>

\* resume_conversation.event_generator up to the first __anext__ of agent.astream: the
\* marker is set, and Command(resume=...) continues the checkpointed step with the
\* decision added to the step's resume values
ResumeStart(s) ==
    /\ streams[s].kind = "resume"
    /\ streams[s].pc = "accepted"
    /\ active_resumes' = active_resumes \cup {CONVERSATION_ID}
    /\ SetStream(s, [streams[s] EXCEPT
           !.pc = "streaming",
           !.run = [messages |-> checkpoint.messages,
                    next |-> IF checkpoint.next \in {"agent", "tools"}
                             THEN checkpoint.next ELSE "end",
                    resume_values |-> Append(checkpoint.resume_values, streams[s].action),
                    response |-> <<>>,
                    resumed |-> IF checkpoint.interrupt # <<>>
                                THEN checkpoint.interrupt[1].id ELSE "",
                    interrupt |-> <<>>]])
    /\ UNCHANGED <<conversations, llm_usage, checkpoint, llm_calls, executor_calls>>
    /\ UNCHANGED <<store_vars, san_vars, side_vars>>

\* resume_conversation.event_generator: the checkpointer cannot be opened; the
\* except block yields an error event and the finally block clears the marker
ResumeSetupFails(s) ==
    /\ streams[s].kind = "resume"
    /\ streams[s].pc = "accepted"
    /\ active_resumes' = active_resumes \ {CONVERSATION_ID}
    /\ SetStream(s, [streams[s] EXCEPT !.pc = "closed",
                                       !.events = Append(@, ErrorEvent)])
    /\ UNCHANGED <<conversations, llm_usage, checkpoint, llm_calls, executor_calls>>
    /\ UNCHANGED <<store_vars, san_vars, side_vars>>

\* the client of the stream goes away
Disconnect(s) ==
    /\ streams[s].pc \in {"streaming", "chunk"}
    /\ streams[s].connected
    /\ SetStream(s, [streams[s] EXCEPT !.connected = FALSE,
                                       !.seen_at_disconnect = Len(streams[s].produced)])
    /\ UNCHANGED <<conversations, llm_usage, active_resumes, checkpoint, llm_calls,
                   executor_calls>>
    /\ UNCHANGED <<store_vars, san_vars, side_vars>>

(***************************************************************************)
(* agent.astream(agent_input, config, stream_mode=["messages","updates"]): *)
(* each action below is one __anext__ of the graph run of stream s.        *)
(***************************************************************************)
\* nodes.py agent_node: the model answers and the answer is streamed as a "messages"
\* chunk, which _stream_agent (lines 95-116) turns into token and tool_call events,
\* unless the client is gone: then it leaves the loop
AgentNodeModel(s) ==
    /\ streams[s].pc = "streaming"
    /\ streams[s].run.next = "agent"
    /\ llm_calls < MaxAsk
    /\ \E response \in Responses(llm_calls + 1) :
          IF streams[s].connected
          THEN SetStream(s, [streams[s] EXCEPT
                   !.asks = Append(@, AgentNodeMessages(GraphState(streams[s].run))),
                   !.events = @ \o MessagesChunkEvents(response),
                   !.shown = @ \cup {response},
                   !.run.next = "agent_end",
                   !.run.response = <<response>>])
          ELSE SetStream(s, [streams[s] EXCEPT
                   !.asks = Append(@, AgentNodeMessages(GraphState(streams[s].run))),
                   !.pc = "finally",
                   !.stream_ok = TRUE,
                   !.run.next = "agent_end",
                   !.run.response = <<response>>])
    /\ llm_calls' = llm_calls + 1
    /\ UNCHANGED <<conversations, llm_usage, active_resumes, checkpoint, executor_calls>>
    /\ UNCHANGED <<store_vars, san_vars, side_vars>>

\* agent_node: llm_with_tools.ainvoke raises; _stream_agent's except block yields the
\* error event
AgentNodeModelFails(s) ==
    /\ streams[s].pc = "streaming"
    /\ streams[s].run.next = "agent"
    /\ llm_calls < MaxAsk
    /\ SetStream(s, [streams[s] EXCEPT !.pc = "finally",
                                       !.asks = Append(@, AgentNodeMessages(GraphState(streams[s].run))),
                                       !.run.next = "failed",
                                       !.failure = "model",
                                       !.events = Append(@, ErrorEvent)])
    /\ llm_calls' = llm_calls + 1
    /\ UNCHANGED <<conversations, llm_usage, active_resumes, checkpoint, executor_calls>>
    /\ UNCHANGED <<store_vars, san_vars, side_vars>>

\* agent_node returns {"messages": [response]}: an "updates" chunk; should_continue
\* routes the run
AgentNodeReturns(s) ==
    /\ streams[s].pc = "streaming"
    /\ streams[s].run.next = "agent_end"
    /\ LET response == streams[s].run.response[1]
           messages == Append(streams[s].run.messages, response)
       IN /\ SetStream(s, [streams[s] EXCEPT
                 !.pc = "chunk",
                 !.chunk = <<Chunk("updates", "node", <<response>>, <<>>)>>,
                 !.produced = Append(@, response),
                 !.run.messages = messages,
                 !.run.next = should_continue(messages),
                 !.run.response = <<>>])
          /\ checkpoint' = [messages |-> messages, next |-> should_continue(messages),
                            interrupt |-> <<>>, resume_values |-> <<>>]
    /\ UNCHANGED <<conversations, llm_usage, active_resumes, llm_calls, executor_calls>>
    /\ UNCHANGED <<store_vars, san_vars, side_vars>>

\* the executors invoked by one run of the tools node
CountExecutions(executed) ==
    [id \in DOMAIN executor_calls |->
        executor_calls[id] + Cardinality({k \in 1..Len(executed) : executed[k] = id})]

\* nodes.py tools_node: it returns its ToolMessages as an "updates" chunk, or
\* interrupt() suspends the run with an __interrupt__ chunk
ToolsNode(s) ==
    /\ streams[s].pc = "streaming"
    /\ streams[s].run.next = "tools"
    /\ LET r == tools_node(streams[s].run.messages, streams[s].run.resume_values)
           messages == streams[s].run.messages \o r.results
       IN /\ executor_calls' = CountExecutions(r.executed)
          /\ IF r.interrupt # <<>>
             THEN /\ SetStream(s, [streams[s] EXCEPT
                         !.pc = "chunk",
                         !.chunk = <<Chunk("updates", "interrupt", <<>>, r.interrupt)>>,
                         !.run.interrupt = r.interrupt,
                         !.run.next = "end"])
                  /\ checkpoint' = [messages |-> streams[s].run.messages,
                                    next |-> "tools", interrupt |-> r.interrupt,
                                    resume_values |-> streams[s].run.resume_values]
             ELSE /\ SetStream(s, [streams[s] EXCEPT
                         !.pc = "chunk",
                         !.chunk = <<Chunk("updates", "node", r.results, <<>>)>>,
                         !.produced = @ \o r.results,
                         !.run.messages = messages,
                         !.run.next = "agent",
                         !.run.resume_values = <<>>])
                  /\ checkpoint' = [messages |-> messages, next |-> "agent",
                                    interrupt |-> <<>>, resume_values |-> <<>>]
    /\ UNCHANGED <<conversations, llm_usage, active_resumes, llm_calls>>
    /\ UNCHANGED <<store_vars, san_vars, side_vars>>

(***************************************************************************)
(* chat.py _stream_agent: the body of the async for loop and the finally   *)
(* block.                                                                  *)
(***************************************************************************)
\* save_messages(session, conversation_id, new_messages) and session.commit(); the
\* next flush comes a microsecond later, or late enough for its timestamps not to
\* reach back into this batch
Save(messages) ==
    /\ db_messages' = db_messages \cup save_messages(messages, next_id, clock)
    /\ next_id' = next_id + Len(messages)
    /\ \E elapsed \in {1, Len(messages)} : clock' = clock + elapsed

NoSave == UNCHANGED <<db_messages, next_id, clock>>

\* lines 95-96 and 118-175: one "updates" chunk of the run
ProcessChunk(s) ==
    /\ streams[s].pc = "chunk"
    /\ LET chunk == streams[s].chunk[1] IN
       IF ~streams[s].connected
       THEN \* request.is_disconnected(): break, then stream_ok = True
            /\ SetStream(s, [streams[s] EXCEPT !.pc = "finally", !.chunk = <<>>,
                                               !.stream_ok = TRUE])
            /\ NoSave
       ELSE IF chunk.kind = "interrupt"
       THEN \* confirmation, flush of new_messages, interrupted, return
            /\ SetStream(s, [streams[s] EXCEPT
                   !.pc = "finally", !.chunk = <<>>,
                   !.events = @ \o <<ConfirmationEvent(chunk.call[1]), InterruptedEvent>>])
            /\ IF streams[s].new_messages # <<>>
               THEN Save(streams[s].new_messages)
               ELSE NoSave
       ELSE /\ SetStream(s, [streams[s] EXCEPT
                   !.pc = "streaming", !.chunk = <<>>,
                   !.new_messages = @ \o chunk.msgs,
                   !.shown = @ \cup Range(chunk.msgs),
                   !.events = @ \o UpdatesChunkEvents(chunk.msgs)])
            /\ NoSave
    /\ UNCHANGED <<conversations, llm_usage, active_resumes, checkpoint, llm_calls,
                   executor_calls>>
    /\ UNCHANGED <<batches, loaded, san_vars, side_vars>>

\* lines 120-132 and 179-184: the flush before the pause raises (the database is not
\* reachable); the except block yields the error event
FlushFails(s) ==
    /\ streams[s].pc = "chunk"
    /\ streams[s].connected
    /\ streams[s].chunk[1].kind = "interrupt"
    /\ streams[s].new_messages # <<>>
    /\ SetStream(s, [streams[s] EXCEPT
           !.pc = "finally", !.chunk = <<>>,
           !.failure = "flush",
           !.events = @ \o <<ConfirmationEvent(streams[s].chunk[1].call[1]), ErrorEvent>>])
    /\ UNCHANGED <<conversations, llm_usage, active_resumes, checkpoint, llm_calls,
                   executor_calls>>
    /\ UNCHANGED <<store_vars, san_vars, side_vars>>

\* a mutant of ClearMarker: the marker stays when the resume run ends
ClearMarkerNever(kind, marks) == marks

\* resume_conversation.event_generator, finally: _active_resumes.discard(conversation_id);
\* only a resume's generator has this block
ClearMarker(kind, marks) ==
    IF kind = "resume" THEN marks \ {CONVERSATION_ID} ELSE marks

\* the run is over (StopAsyncIteration): the loop ends and stream_ok = True
LoopEnds(s) == streams[s].pc = "streaming" /\ streams[s].run.next = "end"

\* lines 177 and 186-216: the end of the loop and the finally block of _stream_agent,
\* and for a resume the finally block of its event_generator
Finally(s) ==
    /\ streams[s].pc = "finally" \/ LoopEnds(s)
    /\ IF streams[s].new_messages # <<>>
       THEN Save(streams[s].new_messages)
       ELSE NoSave
    /\ llm_usage' = llm_usage + 1
    /\ SetStream(s, [streams[s] EXCEPT
           !.pc = "closed",
           !.run.messages = <<>>,
           !.stream_ok = @ \/ LoopEnds(s),
           !.events = Append(@, DoneEvent(streams[s].stream_ok \/ LoopEnds(s)))])
    /\ active_resumes' = ClearMarker(streams[s].kind, active_resumes)
    /\ UNCHANGED <<conversations, checkpoint, llm_calls, executor_calls>>
    /\ UNCHANGED <<batches, loaded, san_vars, side_vars>>

\* lines 177 and 186-216 when save_messages or a commit of the finally block raises:
\* the inner except block logs it, nothing is stored, and done is sent as usual
FinallyStorageFails(s) ==
    /\ streams[s].pc = "finally" \/ LoopEnds(s)
    /\ SetStream(s, [streams[s] EXCEPT
           !.pc = "closed",
           !.run.messages = <<>>,
           !.failure = "finally",
           !.stream_ok = @ \/ LoopEnds(s),
           !.events = Append(@, DoneEvent(streams[s].stream_ok \/ LoopEnds(s)))])
    /\ active_resumes' = ClearMarker(streams[s].kind, active_resumes)
    /\ UNCHANGED <<conversations, llm_usage, checkpoint, llm_calls, executor_calls>>
    /\ UNCHANGED <<store_vars, san_vars, side_vars>>

Init == InitAgent /\ InitStore /\ InitSan /\ InitSide

Next ==
    \E s \in Streams :
          \/ Chat(s)
          \/ ChatStart(s)
          \/ ChatSetupFails(s)
          \/ \E action \in {"approve", "cancel"} : Resume(s, action)
          \/ ResumeStart(s)
          \/ ResumeSetupFails(s)
          \/ Disconnect(s)
          \/ AgentNodeModel(s)
          \/ AgentNodeModelFails(s)
          \/ AgentNodeReturns(s)
          \/ ToolsNode(s)
          \/ ProcessChunk(s)
          \/ FlushFails(s)
          \/ Finally(s)
          \/ FinallyStorageFails(s)

Spec == Init /\ [][Next]_vars

(***************************************************************************)
(* Sequential specification: the requests of a client that stays connected *)
(* and waits for the stream of one request to end before it sends the      *)
(* next, with a store that works; the model client and the set-up of a     *)
(* resume may fail.                                                        *)
(***************************************************************************)
\* no stream of the conversation is open
Quiet == \A t \in Streams : streams[t].pc \in {"idle", "closed", "conflict"}

RunNext ==
    \E s \in Streams :
          \/ Chat(s)
          \/ ChatStart(s)
          \/ Quiet /\ \E action \in {"approve", "cancel"} : Resume(s, action)
          \/ ResumeStart(s)
          \/ ResumeSetupFails(s)
          \/ AgentNodeModel(s)
          \/ AgentNodeModelFails(s)
          \/ AgentNodeReturns(s)
          \/ ToolsNode(s)
          \/ ProcessChunk(s)
          \/ Finally(s)

SpecRun == Init /\ [][RunNext]_vars

(***************************************************************************)
(* Sanitization specification: sanitize_message_history applied to every   *)
(* message list of at most MaxLen messages, and applied again to its       *)
(* result.                                                                 *)
(***************************************************************************)
SanIds == {"", "a", "b"}

SanToolCalls ==
    {<<>>} \cup {<<ToolCall(i, "property_list")>> : i \in SanIds}
           \cup {<<ToolCall("a", "property_list"), ToolCall("b", "guest_delete")>>}

SanMessages ==
    {HumanMessage("hi")}
    \cup {AIMessage(c, tcs) : c \in {"", "text"}, tcs \in SanToolCalls}
    \cup {ToolMessage("ok", i, "") : i \in SanIds}

SanInputs == UNION {[1..n -> SanMessages] : n \in 0..MaxLen}

SanitizeFirst ==
    /\ san_pc = "input"
    /\ san_out' = sanitize_message_history(san_in)
    /\ san_pc' = "sanitized"
    /\ UNCHANGED <<san_in, san_again>>
    /\ UNCHANGED <<agent_vars, store_vars, side_vars>>

SanitizeAgain ==
    /\ san_pc = "sanitized"
    /\ san_again' = sanitize_message_history(san_out)
    /\ san_pc' = "again"
    /\ UNCHANGED <<san_in, san_out>>
    /\ UNCHANGED <<agent_vars, store_vars, side_vars>>

SanInit ==
    /\ InitAgent
    /\ InitStore
    /\ InitSide
    /\ san_in \in SanInputs
    /\ san_out = <<>>
    /\ san_again = <<>>
    /\ san_pc = "input"

SanNext == SanitizeFirst \/ SanitizeAgain

SpecSanitize == SanInit /\ [][SanNext]_vars

(***************************************************************************)
(* Store specification: save_messages calls with arbitrary batches at      *)
(* arbitrary times of a clock that never goes back, and loads.             *)
(***************************************************************************)
\* the Turns of a conversation as its runs produce them, over and over: a question,
\* a tool request, its result, the answer
StoreTurns ==
    <<HumanMessage("hi"),
      AIMessage("", <<ToolCall("a", "property_list")>>),
      ToolMessage("ok", "a", "property_list"),
      AIMessage("text", <<>>)>>

\* the batch of the next n Turns of the conversation, first being its Turn number from
StoreBatch(from, n) == [k \in 1..n |-> StoreTurns[((from + k - 2) % Len(StoreTurns)) + 1]]

\* time passes
Tick ==
    /\ clock < MaxClock
    /\ clock' = clock + 1
    /\ UNCHANGED <<db_messages, next_id, batches, loaded>>
    /\ UNCHANGED <<agent_vars, san_vars, side_vars>>

\* save_messages(db, conversation_id, messages) and the commit
SaveBatch ==
    /\ Len(batches) < MaxSaves
    /\ \E n \in 1..MaxBatch :
       LET messages == StoreBatch(next_id, n) IN
          /\ db_messages' = db_messages \cup save_messages(messages, next_id, clock)
          /\ next_id' = next_id + Len(messages)
          /\ batches' = Append(batches, [k \in 1..Len(messages) |-> next_id + k - 1])
    /\ loaded' = <<>>
    /\ UNCHANGED clock
    /\ UNCHANGED <<agent_vars, san_vars, side_vars>>

\* conversation.messages: SELECT ... ORDER BY created_at, once after each save
LoadMessages ==
    /\ db_messages # {}
    /\ loaded = <<>>
    /\ \E ordered \in OrderByCreatedAt(db_messages) :
          loaded' = [k \in 1..Len(ordered) |-> ordered[k].id]
    /\ UNCHANGED <<db_messages, next_id, clock, batches>>
    /\ UNCHANGED <<agent_vars, san_vars, side_vars>>

StoreInit == InitAgent /\ InitStore /\ InitSan /\ InitSide

StoreNext == Tick \/ SaveBatch \/ LoadMessages

SpecStore == StoreInit /\ [][StoreNext]_vars

(***************************************************************************)
(* Ownership specification: the requests of two users that name a          *)
(* conversation.  A run is taken as a whole: what it stores is one of the  *)
(* batches a run of the agent specification stores.                        *)
(***************************************************************************)
USERS == {"alice", "bob"}

ConvIds == 1..MaxConvs

\* a mutant of get_conversation_with_messages: the row is found by its id alone
GetConversationById(conversation_id, user_id) ==
    IF conversation_id \in DOMAIN conv_owner
    THEN <<conversation_id>> ELSE <<>>

\* memory.py get_conversation_with_messages: WHERE Conversation.id == conversation_id
\* AND Conversation.user_id == user_id; scalar_one_or_none() (<<>> stands for None)
get_conversation_with_messages(conversation_id, user_id) ==
    IF conversation_id \in DOMAIN conv_owner /\ conv_owner[conversation_id] = user_id
    THEN <<conversation_id>> ELSE <<>>

Reply(op, caller, id, status, body) ==
    [op |-> op, caller |-> caller, id |-> id, status |-> status, body |-> body]

\* HTTP 404 "Conversation not found": nothing is written
NotFound(op, caller, id) ==
    /\ reply' = Reply(op, caller, id, "not_found", <<>>)
    /\ UNCHANGED <<conv_owner, conv_messages, next_conv>>

\* what the run of a request stores besides the request's message
RunTurns ==
    {<<AIMessage("answer", <<>>)>>,
     <<AIMessage("", <<ToolCall("tc", "property_delete")>>)>>}

\* chat.py chat() without conversation_id: create_conversation(db, user.id, title)
OwnerChatNew(caller) ==
    /\ next_conv <= MaxConvs
    /\ \E turns \in RunTurns :
          /\ conv_owner' = (next_conv :> caller) @@ conv_owner
          /\ conv_messages' = (next_conv :> (<<USER_MESSAGE>> \o turns)) @@ conv_messages
    /\ next_conv' = next_conv + 1
    /\ reply' = Reply("create", caller, next_conv, "ok", <<>>)
    /\ UNCHANGED <<agent_vars, store_vars, san_vars, title_vars, booking_vars, tn_vars, ex_vars>>

\* chat.py chat() with conversation_id: ownership check, then the run's messages are
\* saved to the conversation
OwnerChat(caller, id) ==
    /\ IF get_conversation_with_messages(id, caller) = <<>>
       THEN NotFound("chat", caller, id)
       ELSE /\ Len(conv_messages[id]) < MaxOwnTurns
            /\ conv_messages' = [conv_messages EXCEPT ![id] = Append(@, USER_MESSAGE)]
            /\ reply' = Reply("chat", caller, id, "ok", <<>>)
            /\ UNCHANGED <<conv_owner, next_conv>>
    /\ UNCHANGED <<agent_vars, store_vars, san_vars, title_vars, booking_vars, tn_vars, ex_vars>>

\* chat.py resume_conversation(): ownership check, then the resumed run's messages
\* are saved to the conversation
OwnerResume(caller, id) ==
    /\ IF get_conversation_with_messages(id, caller) = <<>>
       THEN NotFound("resume", caller, id)
       ELSE /\ Len(conv_messages[id]) < MaxOwnTurns
            /\ conv_messages' = [conv_messages EXCEPT
                                    ![id] = Append(@, ToolMessage(CANCELLED, "tc", "property_delete"))]
            /\ reply' = Reply("resume", caller, id, "ok", <<>>)
            /\ UNCHANGED <<conv_owner, next_conv>>
    /\ UNCHANGED <<agent_vars, store_vars, san_vars, title_vars, booking_vars, tn_vars, ex_vars>>

\* chat.py get_conversation(): the conversation's messages as stored
OwnerGet(caller, id) ==
    /\ IF get_conversation_with_messages(id, caller) = <<>>
       THEN NotFound("get", caller, id)
       ELSE /\ reply' = Reply("get", caller, id, "ok", conv_messages[id])
            /\ UNCHANGED <<conv_owner, conv_messages, next_conv>>
    /\ UNCHANGED <<agent_vars, store_vars, san_vars, title_vars, booking_vars, tn_vars, ex_vars>>

\* chat.py remove_conversation(), memory.py delete_conversation: the row is deleted
\* and its messages with it (cascade="all, delete-orphan")
OwnerDelete(caller, id) ==
    /\ IF get_conversation_with_messages(id, caller) = <<>>
       THEN NotFound("delete", caller, id)
       ELSE /\ conv_owner' = [c \in DOMAIN conv_owner \ {id} |-> conv_owner[c]]
            /\ conv_messages' = [c \in DOMAIN conv_messages \ {id} |-> conv_messages[c]]
            /\ reply' = Reply("delete", caller, id, "ok", <<>>)
            /\ UNCHANGED next_conv
    /\ UNCHANGED <<agent_vars, store_vars, san_vars, title_vars, booking_vars, tn_vars, ex_vars>>

\* memory.py load_conversation_messages: [] when the conversation is not the caller's
OwnerLoad(caller, id) ==
    /\ IF get_conversation_with_messages(id, caller) = <<>>
       THEN reply' = Reply("load", caller, id, "ok", <<>>)
       ELSE reply' = Reply("load", caller, id, "ok",
                           sanitize_message_history(conv_messages[id]))
    /\ UNCHANGED <<conv_owner, conv_messages, next_conv>>
    /\ UNCHANGED <<agent_vars, store_vars, san_vars, title_vars, booking_vars, tn_vars, ex_vars>>

OwnerInit == InitAgent /\ InitStore /\ InitSan /\ InitSide

OwnerNext ==
    \E caller \in USERS :
        \/ OwnerChatNew(caller)
        \/ \E id \in ConvIds :
              \/ OwnerChat(caller, id)
              \/ OwnerResume(caller, id)
              \/ OwnerGet(caller, id)
              \/ OwnerDelete(caller, id)
              \/ OwnerLoad(caller, id)

SpecOwner == OwnerInit /\ [][OwnerNext]_vars

(***************************************************************************)
(* Title specification: generate_title applied to messages of about the    *)
(* length of the limit, with no space, one space or two, padded by         *)
(* whitespace or not.                                                      *)
(***************************************************************************)
TitleLens == (TITLE_LIMIT - MaxTitleExtra)..(TITLE_LIMIT + MaxTitleExtra)

\* the places of the spaces inside a text of n characters
SpacePlaces(n) ==
    {{}} \cup {{i} : i \in 2..(n - 1)} \cup {{i, j} : i \in 2..(n - 1), j \in 2..(n - 1)}

TitleText(n, spaces) == [k \in 1..n |-> IF k \in spaces THEN " " ELSE "a"]

TitlePads == {<<>>, <<" ">>, <<"\t">>}

TitleInputs ==
    {lead \o TitleText(n, spaces) \o trail :
        lead \in TitlePads, trail \in TitlePads,
        n \in TitleLens, spaces \in UNION {SpacePlaces(m) : m \in TitleLens}}

\* chat.py chat(): title = generate_title(chat_request.message)
GenerateTitle ==
    /\ ~title_done
    /\ title_out' = generate_title(title_in)
    /\ title_done' = TRUE
    /\ UNCHANGED title_in
    /\ UNCHANGED <<agent_vars, store_vars, san_vars, own_vars, booking_vars, tn_vars, ex_vars>>

TitleInit ==
    /\ InitAgent /\ InitStore /\ InitSan /\ InitOwner /\ InitBooking /\ InitToolsNode
    /\ InitExecutors
    /\ title_in \in TitleInputs
    /\ title_out = <<>>
    /\ title_done = FALSE

TitleNext == GenerateTitle

SpecTitle == TitleInit /\ [][TitleNext]_vars

(***************************************************************************)
(* Booking specification: api/v1/bookings.py.  The requests are those of   *)
(* the owner of the two properties, for a guest that exists.               *)
(***************************************************************************)
PROPERTIES == {"villa_a", "villa_b"}

Days == 1..MaxDay

\* schemas/booking.py: the status patterns of BookingCreate and BookingUpdate
CREATE_STATUSES == {"pending", "confirmed"}
UPDATE_STATUSES == {"pending", "confirmed", "checked_in", "checked_out", "cancelled"}

\* a field of BookingUpdate: <<>> when it is not set, <<value>> when it is
Optional(values) == {<<>>} \cup {<<v>> : v \in values}

BookingUpdates ==
    [property_id : Optional(PROPERTIES), check_in : Optional(Days),
     check_out : Optional(Days), status : Optional(UPDATE_STATUSES)]

\* update_data.get(field, current)
Effective(field, current) == IF field = <<>> THEN current ELSE field[1]

\* _check_date_conflict: TRUE when it raises 409
check_date_conflict(property_id, check_in, check_out, exclude_booking_id) ==
    \E b \in bookings :
        /\ b.property_id = property_id
        /\ b.status # "cancelled"
        /\ b.check_in < check_out
        /\ b.check_out > check_in
        /\ exclude_booking_id = <<>> \/ b.id # exclude_booking_id[1]

Rejected(status) ==
    /\ booking_reply' = status
    /\ UNCHANGED <<bookings, next_booking>>

\* create_booking, with BookingCreate.check_dates
create_booking(property_id, check_in, check_out, status) ==
    /\ next_booking <= MaxBookings
    /\ IF check_out <= check_in
       THEN Rejected("invalid")
       ELSE IF check_date_conflict(property_id, check_in, check_out, <<>>)
       THEN Rejected("conflict")
       ELSE /\ bookings' = bookings \cup
                   {[id |-> next_booking, property_id |-> property_id,
                     check_in |-> check_in, check_out |-> check_out, status |-> status]}
            /\ next_booking' = next_booking + 1
            /\ booking_reply' = "created"
    /\ UNCHANGED <<agent_vars, store_vars, san_vars, own_vars, title_vars, tn_vars, ex_vars>>

\* update_booking, with BookingUpdate.check_dates
update_booking(booking_id, update_data) ==
    /\ IF \A b \in bookings : b.id # booking_id
       THEN Rejected("not_found")
       ELSE IF /\ update_data.check_in # <<>>
               /\ update_data.check_out # <<>>
               /\ update_data.check_out[1] <= update_data.check_in[1]
       THEN Rejected("invalid")
       ELSE LET booking == CHOOSE b \in bookings : b.id = booking_id
                effective_check_in == Effective(update_data.check_in, booking.check_in)
                effective_check_out == Effective(update_data.check_out, booking.check_out)
                effective_property_id ==
                    Effective(update_data.property_id, booking.property_id)
                dates_changed == update_data.check_in # <<>> \/ update_data.check_out # <<>>
                property_changed == /\ update_data.property_id # <<>>
                                    /\ update_data.property_id[1] # booking.property_id
            IN IF /\ dates_changed \/ property_changed
                  /\ check_date_conflict(effective_property_id, effective_check_in,
                                         effective_check_out, <<booking.id>>)
               THEN Rejected("conflict")
               ELSE /\ bookings' = (bookings \ {booking}) \cup
                           {[id |-> booking.id,
                             property_id |-> effective_property_id,
                             check_in |-> effective_check_in,
                             check_out |-> effective_check_out,
                             status |-> Effective(update_data.status, booking.status)]}
                    /\ booking_reply' = "updated"
                    /\ UNCHANGED next_booking
    /\ UNCHANGED <<agent_vars, store_vars, san_vars, own_vars, title_vars, tn_vars, ex_vars>>

BookingInit == InitAgent /\ InitStore /\ InitSan /\ InitSide

BookingNext ==
    \/ \E property_id \in PROPERTIES, check_in \in Days, check_out \in Days,
          status \in CREATE_STATUSES :
          create_booking(property_id, check_in, check_out, status)
    \/ \E booking_id \in 1..MaxBookings, update_data \in BookingUpdates :
          update_booking(booking_id, update_data)

SpecBooking == BookingInit /\ [][BookingNext]_vars

(***************************************************************************)
(* Tools-node specification: nodes.py tools_node handling one model        *)
(* response, one await at a time, with the resumes that follow its         *)
(* suspensions.  langgraph.prebuilt.ToolNode runs the calls it is given    *)
(* with asyncio.gather: their executors start in call order and finish in  *)
(* any order.                                                              *)
(***************************************************************************)
\* the batches of up to MaxToolCalls calls of two plain tools and a destructive one
ToolNodeBatches ==
    {ToolCalls(1, names) :
        names \in UNION {[1..n -> {"property_list", "booking_search", "property_delete"}] :
                            n \in 1..MaxToolCalls}}

LogEntry(kind, k) == [kind |-> kind, call |-> k]

\* lines 60-73: without a destructive call the whole batch goes to the standard ToolNode
TnEnter ==
    /\ tn_pc = "enter"
    /\ IF \A k \in 1..Len(tn_calls) : tn_calls[k].name \notin DESTRUCTIVE_TOOLS
       THEN tn_pc' = "gather"
       ELSE tn_pc' = "loop"
    /\ tn_i' = 1
    /\ tn_asked' = 0
    /\ tn_results' = <<>>
    /\ UNCHANGED <<tn_calls, tn_resume, tn_running, tn_log>>
    /\ UNCHANGED <<agent_vars, store_vars, san_vars, own_vars, title_vars, booking_vars, ex_vars>>

\* line 73, ToolNode.ainvoke: the executor of the next call of the batch starts
TnGatherStart ==
    /\ tn_pc = "gather"
    /\ tn_i <= Len(tn_calls)
    /\ tn_running' = tn_running \cup {tn_i}
    /\ tn_log' = Append(tn_log, LogEntry("start", tn_i))
    /\ tn_i' = tn_i + 1
    /\ UNCHANGED <<tn_calls, tn_resume, tn_pc, tn_asked, tn_results>>
    /\ UNCHANGED <<agent_vars, store_vars, san_vars, own_vars, title_vars, booking_vars, ex_vars>>

\* line 73, ToolNode.ainvoke: a running executor returns; when all have returned the
\* node returns their ToolMessages in call order
TnGatherFinish(k) ==
    /\ tn_pc = "gather"
    /\ k \in tn_running
    /\ tn_running' = tn_running \ {k}
    /\ tn_log' = Append(tn_log, LogEntry("result", k))
    /\ IF tn_i > Len(tn_calls) /\ tn_running' = {}
       THEN /\ tn_pc' = "returned"
            /\ tn_results' = StandardToolNode(tn_calls).results
       ELSE UNCHANGED <<tn_pc, tn_results>>
    /\ UNCHANGED <<tn_calls, tn_resume, tn_i, tn_asked>>
    /\ UNCHANGED <<agent_vars, store_vars, san_vars, own_vars, title_vars, booking_vars, ex_vars>>

\* lines 77-100: one turn of the for loop up to its await: interrupt() for a
\* destructive call, which suspends the node or returns the decision of a resume, and
\* the start of the call's executor; line 105 after the last call
TnLoopStep ==
    /\ tn_pc = "loop"
    /\ IF tn_i > Len(tn_calls)
       THEN /\ tn_pc' = "returned"
            /\ UNCHANGED <<tn_i, tn_asked, tn_running, tn_results, tn_log>>
       ELSE LET tc == tn_calls[tn_i] IN
            IF tc.name \in DESTRUCTIVE_TOOLS /\ tn_asked >= Len(tn_resume)
            THEN /\ tn_pc' = "suspended"
                 /\ UNCHANGED <<tn_i, tn_asked, tn_running, tn_results, tn_log>>
            ELSE IF tc.name \in DESTRUCTIVE_TOOLS /\ ~Approved(tn_resume[tn_asked + 1])
            THEN /\ tn_results' = Append(tn_results, ToolMessage(CANCELLED, tc.id, tc.name))
                 /\ tn_log' = Append(tn_log, LogEntry("result", tn_i))
                 /\ tn_asked' = tn_asked + 1
                 /\ tn_i' = tn_i + 1
                 /\ UNCHANGED <<tn_pc, tn_running>>
            ELSE /\ tn_pc' = "executing"
                 /\ tn_running' = {tn_i}
                 /\ tn_log' = Append(tn_log, LogEntry("start", tn_i))
                 /\ tn_asked' = IF tc.name \in DESTRUCTIVE_TOOLS THEN tn_asked + 1 ELSE tn_asked
                 /\ UNCHANGED <<tn_i, tn_results>>
    /\ UNCHANGED <<tn_calls, tn_resume>>
    /\ UNCHANGED <<agent_vars, store_vars, san_vars, own_vars, title_vars, booking_vars, ex_vars>>

\* lines 100-103: the single call's ToolNode returns and its result is collected
TnLoopFinish ==
    /\ tn_pc = "executing"
    /\ tn_results' = Append(tn_results, ToolResult(tn_calls[tn_i]))
    /\ tn_log' = Append(tn_log, LogEntry("result", tn_i))
    /\ tn_running' = {}
    /\ tn_i' = tn_i + 1
    /\ tn_pc' = "loop"
    /\ UNCHANGED <<tn_calls, tn_resume, tn_asked>>
    /\ UNCHANGED <<agent_vars, store_vars, san_vars, own_vars, title_vars, booking_vars, ex_vars>>

\* chat.py lines 316-317: Command(resume={"action": ...}) runs the suspended node
\* again from its first line, with one more decision for its interrupt() calls
TnResume(action) ==
    /\ tn_pc = "suspended"
    /\ tn_resume' = Append(tn_resume, action)
    /\ tn_pc' = "enter"
    /\ UNCHANGED <<tn_calls, tn_i, tn_asked, tn_running, tn_results, tn_log>>
    /\ UNCHANGED <<agent_vars, store_vars, san_vars, own_vars, title_vars, booking_vars, ex_vars>>

ToolsNodeInit ==
    /\ InitAgent /\ InitStore /\ InitSan /\ InitOwner /\ InitTitle /\ InitBooking
    /\ InitExecutors
    /\ tn_calls \in ToolNodeBatches
    /\ tn_resume = <<>>
    /\ tn_pc = "enter"
    /\ tn_i = 1
    /\ tn_asked = 0
    /\ tn_running = {}
    /\ tn_results = <<>>
    /\ tn_log = <<>>

ToolsNodeNext ==
    \/ TnEnter
    \/ TnGatherStart
    \/ \E k \in 1..MaxToolCalls : TnGatherFinish(k)
    \/ TnLoopStep
    \/ TnLoopFinish
    \/ \E action \in {"approve", "cancel"} : TnResume(action)

SpecToolsNode == ToolsNodeInit /\ [][ToolsNodeNext]_vars

(***************************************************************************)
(* Executor specification: the tools of mcp/tools that read or write       *)
(* properties, guests and bookings, called with the user_id argument the   *)
(* model gave them ("" when it gave none).  Dates are left out: every      *)
(* booking is for dates of its own.                                        *)
(***************************************************************************)
PropertyRow(id) == CHOOSE p \in ex_properties : p.id = id
GuestRow(id) == CHOOSE g \in ex_guests : g.id = id

\* _serialize_booking: a booking shows the name of its property and the name and email
\* of its guest
BookingShows(b) == {PropertyRow(b.property_id).owner_id, GuestRow(b.guest_id).owner_id}

\* a booking belongs to the owner of its property (the filter of booking_search)
BookingOwner(b) == PropertyRow(b.property_id).owner_id

ExError(tool, user_id) ==
    /\ ex_reply' = Answer(tool, user_id, {}, {})
    /\ UNCHANGED <<ex_properties, ex_guests, ex_bookings, ex_next>>

ExOthersUnchanged ==
    UNCHANGED <<agent_vars, store_vars, san_vars, own_vars, title_vars, booking_vars, tn_vars>>

\* property_tools.py property_create
property_create(user_id) ==
    /\ IF user_id = ""
       THEN ExError("property_create", user_id)
       ELSE /\ ex_next.property <= MaxRows
            /\ ex_properties' = ex_properties \cup
                   {[id |-> ex_next.property, owner_id |-> user_id]}
            /\ ex_next' = [ex_next EXCEPT !.property = @ + 1]
            /\ ex_reply' = Answer("property_create", user_id, {user_id}, {user_id})
            /\ UNCHANGED <<ex_guests, ex_bookings>>
    /\ ExOthersUnchanged

\* property_tools.py property_list: the owner filter is applied `if user_id`
property_list(user_id) ==
    /\ LET properties == IF user_id # ""
                         THEN {p \in ex_properties : p.owner_id = user_id}
                         ELSE ex_properties
       IN ex_reply' = Answer("property_list", user_id, {p.owner_id : p \in properties}, {})
    /\ UNCHANGED <<ex_properties, ex_guests, ex_bookings, ex_next>>
    /\ ExOthersUnchanged

\* property_tools.py property_delete; the bookings of the property go with it
property_delete(property_id, user_id) ==
    /\ IF user_id = ""
       THEN ExError("property_delete", user_id)
       ELSE LET found == {p \in ex_properties : p.id = property_id /\ p.owner_id = user_id}
                gone == {b \in ex_bookings : b.property_id = property_id}
            IN IF found = {}
               THEN ExError("property_delete", user_id)
               ELSE /\ ex_properties' = ex_properties \ found
                    /\ ex_bookings' = ex_bookings \ gone
                    /\ ex_reply' = Answer("property_delete", user_id, {user_id},
                                {user_id} \cup {BookingOwner(b) : b \in gone})
                    /\ UNCHANGED <<ex_guests, ex_next>>
    /\ ExOthersUnchanged

\* guest_tools.py guest_create
guest_create(user_id) ==
    /\ IF user_id = ""
       THEN ExError("guest_create", user_id)
       ELSE /\ ex_next.guest <= MaxRows
            /\ ex_guests' = ex_guests \cup {[id |-> ex_next.guest, owner_id |-> user_id]}
            /\ ex_next' = [ex_next EXCEPT !.guest = @ + 1]
            /\ ex_reply' = Answer("guest_create", user_id, {user_id}, {user_id})
            /\ UNCHANGED <<ex_properties, ex_bookings>>
    /\ ExOthersUnchanged

\* guest_tools.py guest_lookup, include_bookings=True: each guest with its bookings and
\* the names of their properties
guest_lookup(user_id) ==
    /\ IF user_id = ""
       THEN ExError("guest_lookup", user_id)
       ELSE LET guests == {g \in ex_guests : g.owner_id = user_id}
                shown == {b \in ex_bookings : \E g \in guests : b.guest_id = g.id}
            IN /\ ex_reply' = Answer("guest_lookup", user_id,
                           {g.owner_id : g \in guests} \cup {BookingOwner(b) : b \in shown},
                           {})
               /\ UNCHANGED <<ex_properties, ex_guests, ex_bookings, ex_next>>
    /\ ExOthersUnchanged

\* guest_tools.py guest_delete; the bookings of the guest go with it
guest_delete(guest_id, user_id) ==
    /\ IF user_id = ""
       THEN ExError("guest_delete", user_id)
       ELSE LET found == {g \in ex_guests : g.id = guest_id /\ g.owner_id = user_id}
                gone == {b \in ex_bookings : b.guest_id = guest_id}
            IN IF found = {}
               THEN ExError("guest_delete", user_id)
               ELSE /\ ex_guests' = ex_guests \ found
                    /\ ex_bookings' = ex_bookings \ gone
                    /\ ex_reply' = Answer("guest_delete", user_id, {user_id},
                                {user_id} \cup {BookingOwner(b) : b \in gone})
                    /\ UNCHANGED <<ex_properties, ex_next>>
    /\ ExOthersUnchanged

\* booking_tools.py booking_search: the owner filter is applied `if user_id`
booking_search(user_id) ==
    /\ LET found == IF user_id # ""
                    THEN {b \in ex_bookings : BookingOwner(b) = user_id}
                    ELSE ex_bookings
       IN ex_reply' = Answer("booking_search", user_id, UNION {BookingShows(b) : b \in found}, {})
    /\ UNCHANGED <<ex_properties, ex_guests, ex_bookings, ex_next>>
    /\ ExOthersUnchanged

\* booking_tools.py booking_create: the property's owner is compared `if user_id`, the
\* guest is only looked up
booking_create(property_id, guest_id, user_id) ==
    /\ IF \A p \in ex_properties : p.id # property_id
       THEN ExError("booking_create", user_id)
       ELSE IF user_id # "" /\ PropertyRow(property_id).owner_id # user_id
       THEN ExError("booking_create", user_id)
       ELSE IF \A g \in ex_guests : g.id # guest_id
       THEN ExError("booking_create", user_id)
       ELSE LET booking == [id |-> ex_next.booking, property_id |-> property_id,
                            guest_id |-> guest_id, status |-> "pending"]
            IN /\ ex_next.booking <= MaxRows
               /\ ex_bookings' = ex_bookings \cup {booking}
               /\ ex_next' = [ex_next EXCEPT !.booking = @ + 1]
               /\ ex_reply' = Answer("booking_create", user_id, BookingShows(booking),
                           {BookingOwner(booking)})
               /\ UNCHANGED <<ex_properties, ex_guests>>
    /\ ExOthersUnchanged

\* booking_tools.py booking_update: the owner of the booking's property is compared
\* `if user_id`
booking_update(booking_id, status, user_id) ==
    /\ IF \A b \in ex_bookings : b.id # booking_id
       THEN ExError("booking_update", user_id)
       ELSE LET booking == CHOOSE b \in ex_bookings : b.id = booking_id IN
            IF user_id # "" /\ BookingOwner(booking) # user_id
            THEN ExError("booking_update", user_id)
            ELSE /\ ex_bookings' = (ex_bookings \ {booking})
                                       \cup {[booking EXCEPT !.status = status]}
                 /\ ex_reply' = Answer("booking_update", user_id, BookingShows(booking),
                             {BookingOwner(booking)})
                 /\ UNCHANGED <<ex_properties, ex_guests, ex_next>>
    /\ ExOthersUnchanged

ExecutorsInit == InitAgent /\ InitStore /\ InitSan /\ InitSide

ExecutorsNext ==
    \E user_id \in USERS \cup {""} :
        \/ property_create(user_id)
        \/ property_list(user_id)
        \/ \E property_id \in 1..MaxRows : property_delete(property_id, user_id)
        \/ guest_create(user_id)
        \/ guest_lookup(user_id)
        \/ \E guest_id \in 1..MaxRows : guest_delete(guest_id, user_id)
        \/ booking_search(user_id)
        \/ \E property_id \in 1..MaxRows, guest_id \in 1..MaxRows :
              booking_create(property_id, guest_id, user_id)
        \/ \E booking_id \in 1..MaxRows, status \in {"confirmed", "cancelled"} :
              booking_update(booking_id, status, user_id)

SpecExecutors == ExecutorsInit /\ [][ExecutorsNext]_vars

(***************************************************************************)
(* Claims about the agent (Spec).                                          *)
(***************************************************************************)
Last(s) == s[Len(s)]

Running(s) == streams[s].pc \in {"streaming", "chunk", "finally"}

\* the events of the given type in the stream's event list
EventCount(s, type) ==
    Cardinality({k \in 1..Len(streams[s].events) : streams[s].events[k].type = type})

\* the ToolMessages answering call id that the runs' tools steps have returned
ResultsProduced(id) ==
    {<<s, k>> \in Streams \X (1..(2 * MaxAsk)) :
        /\ k <= Len(streams[s].produced)
        /\ streams[s].produced[k].type = "tool"
        /\ streams[s].produced[k].tool_call_id = id}

\* a row of the messages table holds the Turn
Stored(msg) ==
    LET d == DbMessage(msg, 0, 0, 0) IN
    \E row \in db_messages :
        /\ row.role = d.role
        /\ row.content = d.content
        /\ row.tool_calls = d.tool_calls
        /\ row.tool_results = d.tool_results

\* a row of the messages table holds a ToolResult for the call
ResultStored(id) ==
    \E row \in db_messages : row.role = "tool" /\ row.tool_results = <<id>>

\* C1: two resume calls for the same suspended conversation never both run: while
\* one streams the resumed run, no other resume of the conversation runs
C1_SingleFlightResume ==
    \A s, t \in Streams :
        (/\ s # t
         /\ streams[s].kind = "resume"
         /\ streams[t].kind = "resume"
         /\ Running(s))
        => ~Running(t)

\* C2: a run whose model requests a gated tool emits confirmation and then interrupted,
\* no ToolResult for the gated call is produced before a resume is issued, and after the
\* resume exactly one ToolResult for that call is produced
C2_GatedRoundTrip ==
    /\ \A s \in Streams : \A k \in 1..Len(streams[s].events) :
          /\ streams[s].events[k].type = "interrupted" =>
                k > 1 /\ streams[s].events[k - 1].type = "confirmation"
          /\ streams[s].events[k].type = "confirmation" =>
                /\ k < Len(streams[s].events)
                /\ streams[s].events[k + 1].type = "interrupted"
    /\ \A s \in Streams :
          streams[s].run.interrupt # <<>> =>
             LET id == streams[s].run.interrupt[1].id IN
             /\ ResultsProduced(id) # {} =>
                   \E t \in Streams : streams[t].kind = "resume" /\ streams[t].run.resumed = id
             /\ Cardinality(ResultsProduced(id)) <= 1

\* C3: after a resume with action cancel on a suspended gated call, the ToolResult of
\* that call says the action was cancelled and the call's executor is never invoked
C3_CancelNeverExecutes ==
    \A s \in Streams :
        (/\ streams[s].kind = "resume"
         /\ streams[s].action = "cancel"
         /\ streams[s].run.resumed # "")
        => /\ executor_calls[streams[s].run.resumed] = 0
           /\ \A p \in ResultsProduced(streams[s].run.resumed) :
                 streams[p[1]].produced[p[2]].content = CANCELLED

\* C4: every event stream that has ended, of a chat or of a resume, emitted the done
\* event exactly once, as its last event
C4_DoneOnceAtEnd ==
    \A s \in Streams :
        streams[s].pc = "closed" =>
            /\ EventCount(s, "done") = 1
            /\ Last(streams[s].events).type = "done"

\* C7: a client disconnect stops only the event stream: the run of a stream that ended
\* after its client went away, and did not fail, reached Done or a suspension
C7_RunSurvivesDisconnect ==
    \A s \in Streams :
        (/\ streams[s].pc = "closed"
         /\ ~streams[s].connected
         /\ streams[s].run.next # "failed")
        => streams[s].run.next = "end"

\* C8: when a stream has ended after a client disconnect, and the store did not fail,
\* every Turn its run had produced up to the disconnect is in the conversation's
\* stored messages
C8_TurnsBeforeDisconnectStored ==
    \A s \in Streams :
        (/\ streams[s].pc = "closed"
         /\ streams[s].seen_at_disconnect >= 0
         /\ streams[s].failure # "finally")
        => \A k \in 1..streams[s].seen_at_disconnect : Stored(streams[s].produced[k])

\* C9: when the interrupted event has just been emitted, the Turns the run produced
\* before the suspension are stored, and so are the ToolResults of the calls that
\* precede the suspended call in its batch
C9_FlushedBeforeInterrupted ==
    \A s \in Streams :
        (/\ streams[s].pc = "finally"
         /\ streams[s].events # <<>>
         /\ Last(streams[s].events) = InterruptedEvent)
        => /\ \A k \in 1..Len(streams[s].produced) : Stored(streams[s].produced[k])
           /\ LET batch == Last(streams[s].run.messages).tool_calls IN
              \A k \in 1..Len(batch) :
                 (\E j \in (k + 1)..Len(batch) : batch[j] = streams[s].run.interrupt[1])
                 => ResultStored(batch[k].id)

\* the stream went through _stream_agent: only its finally block sends done
StreamedAgent(s) == DoneEvent(TRUE) \in Range(streams[s].events)
                    \/ DoneEvent(FALSE) \in Range(streams[s].events)

\* C11: when a run fails unrecoverably, by a failure of the model client or of the
\* store, its stream emits an error event and, after it, ends with done(ok = false)
C11_ErrorThenDoneNotOk ==
    \A s \in Streams :
        (streams[s].pc = "closed" /\ streams[s].failure # "")
        => /\ Last(streams[s].events) = DoneEvent(FALSE)
           /\ \E k \in 1..(Len(streams[s].events) - 1) : streams[s].events[k] = ErrorEvent

\* C12: at the end of every stream of _stream_agent whose store worked in the finally
\* block, also when the run raised an error, every Turn the client was shown an event
\* for is stored, and each such stream has written its usage record
C12_ShownTurnsStored ==
    /\ \A s \in Streams :
          (/\ streams[s].pc = "closed"
           /\ StreamedAgent(s)
           /\ streams[s].failure # "finally")
          => \A msg \in streams[s].shown : Stored(msg)
    /\ llm_usage = Cardinality({s \in Streams : /\ streams[s].pc = "closed"
                                                /\ StreamedAgent(s)
                                                /\ streams[s].failure # "finally"})

\* C14: getting a conversation returns the sanitized Turn sequence: in every order the
\* stored rows can be read in, the messages of the response are the Turns that
\* sanitization keeps from the stored Turns, in stored order
C14_GetReturnsSanitized ==
    \A ordered \in OrderByCreatedAt(db_messages) :
        LET response == get_conversation(ordered) IN
        [k \in 1..Len(response) |-> LangchainMessage(response[k])]
            = load_conversation_messages(ordered)

\* the ids of the tool calls the model has requested in the run of stream s
RequestedIds(s) ==
    {tc.id : tc \in UNION {Range(msg.tool_calls) :
                             msg \in Range(streams[s].produced) \cup Range(streams[s].run.response)}}

\* C15: within one stream each requested tool call is announced by at most one
\* tool_call event: there are no more tool_call events than requested calls
C15_ToolCallAnnouncedOnce ==
    \A s \in Streams : EventCount(s, "tool_call") <= Cardinality(RequestedIds(s))

\* the run of stream s has made a step of the graph
RunStep(s) == streams'[s].run.next # streams[s].run.next

\* C16: after an Ask step the run goes to Act exactly when the last message, the model's
\* response, carries a tool call, and to Done otherwise; a run that has started reaches
\* Done (its end without a suspension) by no other step
C16_RoutingAfterAsk ==
    [][\A s \in Streams :
          LET run == streams[s].run
              after == streams'[s].run
          IN /\ (RunStep(s) /\ run.next = "agent_end")
                => /\ after.next \in {"tools", "end"}
                   /\ after.next = "tools" <=> Last(after.messages).tool_calls # <<>>
             /\ (RunStep(s) /\ after.next = "end" /\ after.interrupt = <<>>
                   /\ run.next # "none")
                => run.next = "agent_end"]_vars

\* C16 witness: a run went from Ask to Act, and after Act a later Ask took it to Done
\* although an earlier message carries tool calls
C16_Witness ==
    \E s \in Streams :
        /\ streams[s].run.next = "end"
        /\ streams[s].run.interrupt = <<>>
        /\ streams[s].run.messages # <<>>
        /\ Last(streams[s].run.messages).tool_calls = <<>>
        /\ \E k \in 1..Len(streams[s].run.messages) :
              streams[s].run.messages[k].tool_calls # <<>>

\* C20: the marker of a conversation is set only while a resume of it runs: when a
\* resume has ended, by success, by a new suspension or by an error, the marker is
\* cleared, so no later resume meets a marker left behind
C20_MarkerClearedAtEnd ==
    /\ active_resumes # {} =>
          \E s \in Streams : streams[s].kind = "resume" /\ Running(s)
    /\ Quiet => \A s \in Streams : streams[s].pc # "conflict"

\* C20 witness: a resume ended with an error and left no marker behind, and the next
\* resume of the conversation was accepted and runs
C20_Witness ==
    \E s \in Streams :
        /\ s + 1 \in Streams
        /\ streams[s].kind = "resume"
        /\ streams[s].pc = "closed"
        /\ ErrorEvent \in Range(streams[s].events)
        /\ streams[s + 1].kind = "resume"
        /\ streams[s + 1].pc = "streaming"
        /\ active_resumes = {CONVERSATION_ID}

(***************************************************************************)
(* Claims about ownership (SpecOwner).                                     *)
(***************************************************************************)
\* the request answered in this step named a conversation that is not its caller's
ForeignRequest ==
    /\ reply'.op \notin {"none", "create"}
    /\ ~(reply'.id \in DOMAIN conv_owner /\ conv_owner[reply'.id] = reply'.caller)

\* C13: the owner of a conversation never changes, and a request naming a conversation
\* (chat, resume, get, delete, load) by a caller who is not its owner is answered
\* not-found (load: an empty history) and changes no conversation and no Turn
C13_OwnerOnly ==
    [][/\ \A id \in DOMAIN conv_owner \cap DOMAIN conv_owner' :
             conv_owner'[id] = conv_owner[id]
       /\ ForeignRequest
          => /\ IF reply'.op = "load"
                THEN reply'.body = <<>>
                ELSE reply'.status = "not_found"
             /\ conv_owner' = conv_owner
             /\ conv_messages' = conv_messages]_vars

\* C13 witness: a delete by a caller who is not the owner of a conversation that has
\* Turns was answered not-found
C13_Witness ==
    /\ reply.op = "delete"
    /\ reply.status = "not_found"
    /\ reply.id \in DOMAIN conv_owner
    /\ conv_owner[reply.id] # reply.caller
    /\ conv_messages[reply.id] # <<>>

(***************************************************************************)
(* Claims about titles (SpecTitle).                                        *)
(***************************************************************************)
\* t is s without the whitespace at its two ends
Trimmed(t, s) ==
    /\ t = <<>> \/ (t[1] \notin WHITESPACE /\ t[Len(t)] \notin WHITESPACE)
    /\ \E a \in 0..Len(s) :
          /\ a + Len(t) <= Len(s)
          /\ t = SubSeq(s, a + 1, a + Len(t))
          /\ \A k \in 1..Len(s) : (k <= a \/ k > a + Len(t)) => s[k] \in WHITESPACE

\* C17: the title is the trimmed text when that has at most 50 characters; otherwise it
\* is a prefix of the trimmed text followed by an ellipsis, the prefix being the first 50
\* characters cut back to before their last space (all 50 when they hold no space)
C17_TitleIsCutPrefix ==
    title_done =>
        \E t \in {strip(title_in)} :
            /\ Trimmed(t, title_in)
            /\ Len(t) <= TITLE_LIMIT => title_out = t
            /\ Len(t) > TITLE_LIMIT =>
                  \E n \in 0..TITLE_LIMIT :
                      /\ title_out = SubSeq(t, 1, n) \o ELLIPSIS
                      /\ IF \E k \in 1..TITLE_LIMIT : t[k] = " "
                         THEN /\ t[n + 1] = " "
                              /\ \A k \in (n + 2)..TITLE_LIMIT : t[k] # " "
                         ELSE n = TITLE_LIMIT

\* C17 witness: the title of a padded text of more than 50 characters was cut back to
\* before a space
C17_Witness ==
    /\ title_done
    /\ Len(title_in) > Len(strip(title_in))
    /\ Len(strip(title_in)) > TITLE_LIMIT
    /\ Len(title_out) < TITLE_LIMIT + Len(ELLIPSIS)
    /\ Len(title_out) > Len(ELLIPSIS)

(***************************************************************************)
(* Claims about bookings (SpecBooking).                                    *)
(***************************************************************************)
\* one's check_in is before the other's check_out and its check_out after the other's
\* check_in
Overlap(a, b) == a.check_in < b.check_out /\ a.check_out > b.check_in

\* C18: after any sequence of create and update requests no two bookings of one property
\* that are not cancelled have overlapping date ranges
C18_NoOverlappingBookings ==
    \A a \in bookings : \A b \in bookings :
        (/\ a.id # b.id
         /\ a.property_id = b.property_id
         /\ a.status # "cancelled"
         /\ b.status # "cancelled")
        => ~Overlap(a, b)

(***************************************************************************)
(* Claims about sanitization (SpecSanitize).                               *)
(***************************************************************************)
\* the tool-call ids of the AIMessages of s before position i
EarlierToolCallIds(s, i) ==
    {tc.id : tc \in UNION {Range(s[j].tool_calls) :
                             j \in {k \in 1..(i - 1) : s[k].type = "ai"}}}

\* C5: after sanitization every ToolMessage's tool_call_id is the id of a tool call
\* of an AIMessage that stands strictly earlier in the sanitized list
C5_ResultAfterItsRequest ==
    san_pc # "input" =>
        \A i \in 1..Len(san_out) :
            san_out[i].type = "tool" =>
                san_out[i].tool_call_id \in EarlierToolCallIds(san_out, i)

\* C6: sanitization is idempotent, sanitize(sanitize(s)) = sanitize(s)
C6_SanitizeIdempotent ==
    san_pc = "again" => san_again = san_out

\* C6 witness: a list sanitization shortened, without emptying it, was sanitized again
C6_Witness ==
    /\ san_pc = "again"
    /\ san_out # <<>>
    /\ Len(san_out) < Len(san_in)

RowIds(ordered) == [k \in 1..Len(ordered) |-> ordered[k].id]

Pos(order, x) == CHOOSE k \in 1..Len(order) : order[k] = x

\* C21: the Turns of a conversation are totally ordered in append order across flushes:
\* no two rows have the same created_at, and every row of an earlier save_messages call
\* loads before every row of a later one
C21_TurnsTotallyOrdered ==
    /\ \A r1 \in db_messages : \A r2 \in db_messages :
          r1.id # r2.id => r1.created_at # r2.created_at
    /\ loaded # <<>> =>
          \A a \in 1..Len(batches) : \A b \in 1..Len(batches) :
              a < b => \A x \in Range(batches[a]) : \A y \in Range(batches[b]) :
                          Pos(loaded, x) < Pos(loaded, y)

(***************************************************************************)
(* Claims about the tools node (SpecToolsNode).                            *)
(***************************************************************************)
\* the node's results are those of the for loop taken as a whole
TnResultsAgree ==
    tn_pc = "returned" =>
        tn_results = tools_node(<<AIMessage("", tn_calls)>>, tn_resume).results

\* C22: the tool calls of one response are executed one at a time in the order of the
\* response: when the executor of a call starts, every earlier call of the batch has
\* its ToolResult, in batches with a gated call and in batches without
C22_SequentialToolCalls ==
    \A p \in 1..Len(tn_log) :
        tn_log[p].kind = "start" =>
            \A j \in 1..(tn_log[p].call - 1) :
                \E q \in 1..(p - 1) : tn_log[q] = LogEntry("result", j)

(***************************************************************************)
(* Claims about what the model is sent (Spec).                             *)
(***************************************************************************)
\* C23: in every Ask step of a run, those after a resume included, the instructions
\* sent to the model carry the identity of the caller
C23_AskCarriesCaller ==
    \A s \in Streams : \A k \in 1..Len(streams[s].asks) :
        streams[s].asks[k].system.user_id = USER_ID

\* the run of stream s executes the loop: it has reached neither Done nor a suspension
InFlight(s) ==
    /\ streams[s].pc \in {"streaming", "chunk"}
    /\ streams[s].run.next \in {"agent", "agent_end", "tools"}

\* C24: at most one run of the conversation is in flight at any time: while the run of
\* one request executes the loop, the run of no other chat or resume does
C24_OneRunInFlight ==
    \A s \in Streams : \A t \in Streams :
        (s # t /\ InFlight(s)) => ~InFlight(t)

(***************************************************************************)
(* Claims about the tool executors (SpecExecutors).                        *)
(***************************************************************************)
\* C25: every tool call shows and changes only rows of the caller whose id it was
\* given, and a call given no id shows and changes no user's rows
C25_ExecutorsKeepToCaller ==
    ex_reply.returned \cup ex_reply.changed
        \subseteq (IF ex_reply.user_id = "" THEN {} ELSE {ex_reply.user_id})

(***************************************************************************)
(* Claims about what is stored and what is sent (Spec).                    *)
(***************************************************************************)
\* two rows of the messages table hold the same Turn
SameTurn(r1, r2) ==
    /\ r1.role = r2.role
    /\ r1.content = r2.content
    /\ r1.tool_calls = r2.tool_calls
    /\ r1.tool_results = r2.tool_results

\* C26: each Turn of a run is stored once, over the flush before a pause, the flush at
\* the end of the stream and the resume: no two rows hold the same Turn of the model or
\* of a tool (each of which is produced once), and there are no more rows of user
\* Turns than chat requests
C26_TurnStoredOnce ==
    /\ \A r1 \in db_messages : \A r2 \in db_messages :
          (r1.id # r2.id /\ r1.role # "user") => ~SameTurn(r1, r2)
    /\ Cardinality({r \in db_messages : r.role = "user"})
          <= Cardinality({s \in Streams : streams[s].kind = "chat"})

\* C27: over the whole suspend/resume cycle the executor of every tool call is invoked
\* at most once
C27_ExecutorAtMostOnce ==
    \A id \in DOMAIN executor_calls : executor_calls[id] <= 1

\* how often the Turn msg stands in the message list
Occurrences(messages, msg) == Cardinality({k \in 1..Len(messages) : messages[k] = msg})

\* C28: in every Ask step the Turn sequence sent to the model holds each Turn of the
\* conversation at most once: each Turn of the model or of a tool (each of which is
\* produced once) stands in it once at most, and it holds no more user Turns than the
\* conversation has had chat requests
C28_AskHoldsTurnOnce ==
    \A s \in Streams : \A k \in 1..Len(streams[s].asks) :
        LET messages == streams[s].asks[k].messages IN
        /\ \A msg \in Range(messages) :
              msg.type # "human" => Occurrences(messages, msg) = 1
        /\ Occurrences(messages, USER_MESSAGE)
              <= Cardinality({t \in Streams : streams[t].kind = "chat"})

\* the texts of the token events of stream s, in the order sent
TokenTexts(s) ==
    LET tokens == SelectSeq(streams[s].events, LAMBDA e : e.type = "token")
    IN [k \in 1..Len(tokens) |-> tokens[k].content]

\* the final answers the run of stream s has had from the model
FinalAnswers(s) ==
    {msg \in Range(streams[s].produced) \cup Range(streams[s].run.response) :
        msg.type = "ai" /\ msg.tool_calls = <<>>}

\* C29: the text of a final answer reaches the client once: the token events of a
\* stream carry the text of the run's final answer and nothing twice, and at the end of
\* a stream whose client stayed they are exactly that text
C29_AnswerTextOnce ==
    \A s \in Streams :
        /\ \A k \in 1..Len(TokenTexts(s)) : \A j \in 1..Len(TokenTexts(s)) :
              TokenTexts(s)[k] = TokenTexts(s)[j] => k = j
        /\ \A k \in 1..Len(TokenTexts(s)) :
              \E msg \in FinalAnswers(s) : msg.content = TokenTexts(s)[k]
        /\ (streams[s].pc = "closed" /\ streams[s].connected) =>
              \A msg \in FinalAnswers(s) : TokenTexts(s) = <<msg.content>>

\* C30: the done event of a stream carries ok = false exactly when an error event was
\* sent earlier in the stream; a stream that ends with interrupted or after its client
\* went away, without an error, reports ok = true
C30_DoneOkUnlessError ==
    \A s \in Streams : \A k \in 1..Len(streams[s].events) :
        streams[s].events[k].type = "done" =>
            (streams[s].events[k].ok = FALSE
                <=> \E j \in 1..(k - 1) : streams[s].events[j] = ErrorEvent)

====
